---- MODULE Spec2Model ----
(***************************************************************************)
(* The parking lot of src/ParkingLot.py: typed spots on the grids of       *)
(* floors, two placement strategies, and the lot's park / unpark / search  *)
(* / count operations.                                                     *)
(*                                                                         *)
(* Python values are modelled as follows.  An Optional is a sequence of    *)
(* length at most one (None is << >>, an object x is << x >>).  A list is  *)
(* a sequence, the Python index i being the TLA+ index i + 1.  A Vehicle   *)
(* is the record of its fields; a ParkingSpot object is identified by the  *)
(* place that holds it (floor index in lot.floors, grid row, grid column). *)
(***************************************************************************)
EXTENDS Integers, Sequences, FiniteSets

\* ---------------------------------------------------------------- inputs

\* The demo floor's grid: ParkingFloor(0, 2, 2).
Rows == 2
Cols == 2

\* A lot is set up with at most this many add_floor calls plus populated cells.
SetupBudget == 4

BIKE == "BIKE"
CAR == "CAR"
VehicleType == {BIKE, CAR}

\* Licence numbers the callers use, and the floor numbers they give floors.
Numbers == {"KA01", "KA02"}
FloorNums == {0, 1}

\* class Vehicle: number and type.
Vehicle(number, vtype) == [number |-> number, type |-> vtype]

\* The vehicles the callers bring: two cars, and a bike carrying the number of
\* one of the cars (the lot does not check that numbers are unique).
Vehicles == {Vehicle("KA01", CAR), Vehicle("KA02", CAR), Vehicle("KA01", BIKE)}

None == << >>
Some(x) == << x >>

FirstAvailable == "FirstAvailableStrategy"
LowestFloor == "LowestFloorStrategy"
Strategies == {FirstAvailable, LowestFloor}

\* floors and strategy are the lot's attributes; calls is, for each thread,
\* where its call of park_vehicle stands.
VARIABLES floors, strategy, calls
vars == << floors, strategy, calls >>

Threads == {1, 2}

\* A thread that is in no call.
Idle == [pc |-> "idle", vehicle |-> None, k |-> 0, ret |-> None]

\* ----------------------------------------------------------- ParkingSpot

ParkingSpot(spot_type, row, col) ==
    [spot_type |-> spot_type, row |-> row, col |-> col, vehicle |-> None]

is_free(spot) == spot.vehicle = None

\* park without the type test.
park_no_type_test(spot, vehicle) ==
    IF is_free(spot)
    THEN [ret |-> TRUE, spot |-> [spot EXCEPT !.vehicle = Some(vehicle)]]
    ELSE [ret |-> FALSE, spot |-> spot]

\* park without the is_free() test.
park_no_free_test(spot, vehicle) ==
    IF spot.spot_type = vehicle.type
    THEN [ret |-> TRUE, spot |-> [spot EXCEPT !.vehicle = Some(vehicle)]]
    ELSE [ret |-> FALSE, spot |-> spot]

\* park: binds the vehicle iff the spot is free and of the vehicle's type.
park(spot, vehicle) ==
    IF is_free(spot) /\ spot.spot_type = vehicle.type
    THEN [ret |-> TRUE, spot |-> [spot EXCEPT !.vehicle = Some(vehicle)]]
    ELSE [ret |-> FALSE, spot |-> spot]

\* unpark that reads the vehicle after clearing it.
unpark_returns_cleared(spot) ==
    [ret |-> None, spot |-> [spot EXCEPT !.vehicle = None]]

\* unpark that forgets to clear the spot.
unpark_keeps_vehicle(spot) == [ret |-> spot.vehicle, spot |-> spot]

\* unpark: clears the spot and returns what it held.
unpark(spot) ==
    [ret |-> spot.vehicle, spot |-> [spot EXCEPT !.vehicle = None]]

\* ---------------------------------------------------------- ParkingFloor

ParkingFloor(floor_num, rows, cols) ==
    [floor_num |-> floor_num,
     spots |-> [r \in 1..rows |-> [c \in 1..cols |-> None]]]

\* A Python list index: i in 0..n-1, or -n..-1 counted from the end;
\* 0 stands for IndexError.
PyIndex(i, n) ==
    IF 0 <= i /\ i < n THEN i + 1
    ELSE IF -n <= i /\ i < 0 THEN i + n + 1
    ELSE 0

\* add_spot: self.spots[row][col] = spot, or IndexError and no change.
add_spot(floor, spot, row, col) ==
    LET r == PyIndex(row, Len(floor.spots))
        c == IF r = 0 THEN 0 ELSE PyIndex(col, Len(floor.spots[r]))
    IN IF r = 0 \/ c = 0
       THEN [raised |-> TRUE, floor |-> floor]
       ELSE [raised |-> FALSE,
             floor |-> [floor EXCEPT !.spots[r][c] = Some(spot)]]

\* The cells of a floor column by column.
FloorCells_column_major(i, floor) ==
    LET R == Len(floor.spots)
        C == IF R = 0 THEN 0 ELSE Len(floor.spots[1])
    IN [k \in 1..(R * C) |->
           [floor |-> i, r |-> ((k - 1) % R) + 1, c |-> ((k - 1) \div R) + 1]]

\* The cells of a floor in the order "for row in spots: for spot in row".
FloorCells(i, floor) ==
    LET R == Len(floor.spots)
        C == IF R = 0 THEN 0 ELSE Len(floor.spots[1])
    IN [k \in 1..(R * C) |->
           [floor |-> i, r |-> ((k - 1) \div C) + 1, c |-> ((k - 1) % C) + 1]]

CellAt(fls, ref) == fls[ref.floor].spots[ref.r][ref.c]

SetCell(fls, ref, cell) == [fls EXCEPT ![ref.floor].spots[ref.r][ref.c] = cell]

\* get_free_spots that counts the free spots of every type.
get_free_spots_any_type(floor, vtype) ==
    LET cells == FloorCells(1, floor)
        Counts(ref) ==
            LET cell == floor.spots[ref.r][ref.c]
            IN cell # None /\ is_free(cell[1])
    IN Cardinality({k \in 1..Len(cells) : Counts(cells[k])})

\* get_free_spots: populated, free cells of the given type.
get_free_spots(floor, vtype) ==
    LET cells == FloorCells(1, floor)
        Counts(ref) ==
            LET cell == floor.spots[ref.r][ref.c]
            IN cell # None /\ is_free(cell[1]) /\ cell[1].spot_type = vtype
    IN Cardinality({k \in 1..Len(cells) : Counts(cells[k])})

\* ------------------------------------------------------------ strategies

\* The floors in stored order, as indices into lot.floors.
StoredOrder(fls) == [i \in 1..Len(fls) |-> i]

\* sorted that puts floors of equal floor_num in reverse insertion order.
sorted_unstable(fls) ==
    LET n == Len(fls)
        Before(j, i) ==
            \/ fls[j].floor_num < fls[i].floor_num
            \/ fls[j].floor_num = fls[i].floor_num /\ j > i
        Rank(i) == 1 + Cardinality({j \in 1..n : Before(j, i)})
    IN [k \in 1..n |-> CHOOSE i \in 1..n : Rank(i) = k]

\* sorted(floors, key=floor_num): ascending and stable.
sorted(fls) ==
    LET n == Len(fls)
        Before(j, i) ==
            \/ fls[j].floor_num < fls[i].floor_num
            \/ fls[j].floor_num = fls[i].floor_num /\ j < i
        Rank(i) == 1 + Cardinality({j \in 1..n : Before(j, i)})
    IN [k \in 1..n |-> CHOOSE i \in 1..n : Rank(i) = k]

RECURSIVE ScanOrder(_, _)
ScanOrder(fls, order) ==
    IF order = << >> THEN << >>
    ELSE FloorCells(Head(order), fls[Head(order)]) \o ScanOrder(fls, Tail(order))

\* The loop shared by both strategies: spot.park(vehicle) on every populated
\* cell in turn, returning the first spot on which it succeeds.
RECURSIVE ScanPark(_, _, _)
ScanPark(fls, cells, vehicle) ==
    IF cells = << >> THEN [ret |-> None, floors |-> fls]
    ELSE LET ref == Head(cells)
             cell == CellAt(fls, ref)
         IN IF cell = None THEN ScanPark(fls, Tail(cells), vehicle)
            ELSE LET p == park(cell[1], vehicle)
                     fls2 == SetCell(fls, ref, Some(p.spot))
                 IN IF p.ret THEN [ret |-> Some(ref), floors |-> fls2]
                    ELSE ScanPark(fls2, Tail(cells), vehicle)

FirstAvailableStrategy_find_spot(fls, vehicle) ==
    ScanPark(fls, ScanOrder(fls, StoredOrder(fls)), vehicle)

LowestFloorStrategy_find_spot(fls, vehicle) ==
    ScanPark(fls, ScanOrder(fls, sorted(fls)), vehicle)

find_spot(strat, fls, vehicle) ==
    IF strat = FirstAvailable
    THEN FirstAvailableStrategy_find_spot(fls, vehicle)
    ELSE LowestFloorStrategy_find_spot(fls, vehicle)

\* ------------------------------------------------------------ ParkingLot

\* park_vehicle that keeps to the strategy the lot was built with.
park_vehicle_default_strategy(strat, fls, vehicle) ==
    find_spot(FirstAvailable, fls, vehicle)

park_vehicle(strat, fls, vehicle) == find_spot(strat, fls, vehicle)

Holds(fls, ref, number) ==
    LET cell == CellAt(fls, ref)
    IN cell # None /\ cell[1].vehicle # None
       /\ cell[1].vehicle[1].number = number

RECURSIVE FirstHolding(_, _, _)
FirstHolding(fls, cells, number) ==
    IF cells = << >> THEN None
    ELSE IF Holds(fls, Head(cells), number) THEN Some(Head(cells))
    ELSE FirstHolding(fls, Tail(cells), number)

\* unpark_vehicle that clears every spot holding the number.
unpark_vehicle_every_holder(fls, number) ==
    LET hit == FirstHolding(fls, ScanOrder(fls, StoredOrder(fls)), number)
        Cleared(cell) ==
            IF cell # None /\ cell[1].vehicle # None
                  /\ cell[1].vehicle[1].number = number
            THEN Some(unpark(cell[1]).spot)
            ELSE cell
    IN IF hit = None THEN [ret |-> None, floors |-> fls]
       ELSE [ret |-> unpark(CellAt(fls, hit[1])[1]).ret,
             floors |-> [i \in 1..Len(fls) |->
                 [fls[i] EXCEPT !.spots =
                     [r \in 1..Len(fls[i].spots) |->
                         [c \in 1..Len(fls[i].spots[r]) |->
                             Cleared(fls[i].spots[r][c])]]]]]

\* unpark_vehicle: the first spot, in stored order, that holds the number.
unpark_vehicle(fls, number) ==
    LET hit == FirstHolding(fls, ScanOrder(fls, StoredOrder(fls)), number)
    IN IF hit = None THEN [ret |-> None, floors |-> fls]
       ELSE LET u == unpark(CellAt(fls, hit[1])[1])
            IN [ret |-> u.ret, floors |-> SetCell(fls, hit[1], Some(u.spot))]

\* search_vehicle: the text "Vehicle n at Floor f Spot(r,c)", as its parts.
search_vehicle(fls, number) ==
    LET hit == FirstHolding(fls, ScanOrder(fls, StoredOrder(fls)), number)
    IN IF hit = None THEN None
       ELSE LET spot == CellAt(fls, hit[1])[1]
            IN Some([number |-> number,
                     floor_num |-> fls[hit[1].floor].floor_num,
                     row |-> spot.row, col |-> spot.col])

\* count_free_spots that takes floor_num for the index in lot.floors.
count_free_spots_by_index(fls, floor_num, vtype) ==
    IF floor_num + 1 \in 1..Len(fls)
    THEN get_free_spots(fls[floor_num + 1], vtype)
    ELSE 0

\* count_free_spots: the free count of the first floor with the floor_num,
\* or 0 when there is none.
RECURSIVE count_free_spots(_, _, _)
count_free_spots(fls, floor_num, vtype) ==
    IF fls = << >> THEN 0
    ELSE IF Head(fls).floor_num = floor_num
         THEN get_free_spots(Head(fls), vtype)
         ELSE count_free_spots(Tail(fls), floor_num, vtype)

\* --------------------------------------------------------------- actions

\* The number of populated cells of the lot.
NumSpots(fls) ==
    Cardinality({ref \in [floor : 1..Len(fls), r : 1..Rows, c : 1..Cols] :
                    CellAt(fls, ref) # None})

SetupSize(fls) == Len(fls) + NumSpots(fls)

Init ==
    /\ floors = << >>
    /\ strategy \in Strategies
    /\ calls = [t \in Threads |-> Idle]

AddFloor(floor_num) ==
    /\ SetupSize(floors) < SetupBudget
    /\ floors' = Append(floors, ParkingFloor(floor_num, Rows, Cols))
    /\ UNCHANGED << strategy, calls >>

\* Whether add_spot(.., row, col) stays within the setup budget: it raises,
\* replaces the spot of a populated cell, or populates one more cell.
WithinBudget(fls, floor, row, col) ==
    LET r == PyIndex(row, Len(floor.spots))
        c == IF r = 0 THEN 0 ELSE PyIndex(col, Len(floor.spots[r]))
    IN IF r = 0 \/ c = 0 THEN TRUE
       ELSE IF floor.spots[r][c] # None THEN TRUE
       ELSE SetupSize(fls) < SetupBudget

\* A caller builds the spot for the place it puts it at, as the demo does.
AddSpot(i, spot_type, row, col) ==
    /\ WithinBudget(floors, floors[i], row, col)
    /\ floors' = [floors EXCEPT ![i] =
           add_spot(floors[i], ParkingSpot(spot_type, row, col), row, col).floor]
    /\ UNCHANGED << strategy, calls >>

SetStrategy(strat) ==
    /\ strategy' = strat
    /\ UNCHANGED << floors, calls >>

ParkVehicle(vehicle) ==
    /\ floors' = park_vehicle(strategy, floors, vehicle).floors
    /\ UNCHANGED << strategy, calls >>

UnparkVehicle(number) ==
    /\ floors' = unpark_vehicle(floors, number).floors
    /\ UNCHANGED << strategy, calls >>

\* search_vehicle and count_free_spots assign nothing: what they return is
\* the value of the operators of the same names.
SearchVehicle(number) ==
    /\ Len(search_vehicle(floors, number)) <= 1
    /\ UNCHANGED vars

CountFreeSpots(floor_num, vtype) ==
    /\ count_free_spots(floors, floor_num, vtype) >= 0
    /\ UNCHANGED vars

Next ==
    \/ \E f \in FloorNums : AddFloor(f)
    \/ \E i \in 1..Len(floors), t \in VehicleType, r \in 0..(Rows - 1), c \in 0..(Cols - 1) :
           AddSpot(i, t, r, c)
    \/ \E s \in Strategies : SetStrategy(s)
    \/ \E v \in Vehicles : ParkVehicle(v)
    \/ \E n \in Numbers : UnparkVehicle(n)
    \/ \E n \in Numbers : SearchVehicle(n)
    \/ \E f \in FloorNums \cup {2}, t \in VehicleType : CountFreeSpots(f, t)

Spec == Init /\ [][Next]_vars

\* ------------------------------------------------------ shared vocabulary

\* Every grid place of the lot, populated or not.
Refs(fls) == [floor : 1..Len(fls), r : 1..Rows, c : 1..Cols]

Populated(fls) == {ref \in Refs(fls) : CellAt(fls, ref) # None}

SpotAt(fls, ref) == CellAt(fls, ref)[1]

Occupied(fls) == {ref \in Populated(fls) : SpotAt(fls, ref).vehicle # None}

\* The populated, free places whose spot has the vehicle's type.
Candidates(fls, vehicle) ==
    {ref \in Populated(fls) :
        /\ SpotAt(fls, ref).vehicle = None
        /\ SpotAt(fls, ref).spot_type = vehicle.type}

\* ------------------------------------------------------------------- C1

\* A spot holds None or one vehicle.
AtMostOneOccupant ==
    \A ref \in Populated(floors) : Len(SpotAt(floors, ref).vehicle) <= 1

\* park on a spot that is not free fails and leaves the spot as it was.
ParkKeepsOccupant ==
    \A ref \in Occupied(floors), v \in Vehicles :
        /\ ~park(SpotAt(floors, ref), v).ret
        /\ park(SpotAt(floors, ref), v).spot = SpotAt(floors, ref)

\* park_vehicle leaves every occupied spot as it was; unpark_vehicle leaves
\* every occupied spot as it was except the one it releases (the first that
\* holds the number), which it leaves free.  search_vehicle and
\* count_free_spots assign nothing.
OccupiedUntilReleased ==
    /\ \A v \in Vehicles :
           LET after == park_vehicle(strategy, floors, v).floors
           IN \A ref \in Occupied(floors) :
                  CellAt(after, ref) = CellAt(floors, ref)
    /\ \A n \in Numbers :
           LET after == unpark_vehicle(floors, n).floors
               first == FirstHolding(floors,
                            ScanOrder(floors, StoredOrder(floors)), n)
           IN \A ref \in Occupied(floors) :
                  IF first = Some(ref)
                  THEN is_free(SpotAt(after, ref))
                  ELSE CellAt(after, ref) = CellAt(floors, ref)

\* C1: exclusivity.  In every reachable state a spot holds at most one
\* vehicle, park on an occupied spot never replaces its occupant, and an
\* occupied spot stays occupied by the same vehicle over every park_vehicle,
\* unpark_vehicle, search_vehicle and count_free_spots call except the
\* unpark_vehicle that releases this spot.
C1_Exclusivity ==
    /\ AtMostOneOccupant
    /\ ParkKeepsOccupant
    /\ OccupiedUntilReleased

\* An occupied spot on which a further park_vehicle of that type was refused
\* while another spot of the type was still free.
C1_Witness ==
    \E ref \in Occupied(floors), v \in Vehicles :
        /\ v.type = SpotAt(floors, ref).spot_type
        /\ v # SpotAt(floors, ref).vehicle[1]
        /\ ~park(SpotAt(floors, ref), v).ret
        /\ Candidates(floors, v) # {}

\* ------------------------------------------------------------------- C2

\* park refuses every vehicle whose type differs from the spot's type, on
\* the spot as it is and on the same spot when free.
ParkRefusesOtherType ==
    \A ref \in Populated(floors), v \in Vehicles :
        LET spot == SpotAt(floors, ref)
            freed == [spot EXCEPT !.vehicle = None]
        IN v.type # spot.spot_type =>
               /\ ~park(spot, v).ret /\ park(spot, v).spot = spot
               /\ ~park(freed, v).ret /\ park(freed, v).spot = freed

OccupantHasSpotType ==
    \A ref \in Occupied(floors) :
        SpotAt(floors, ref).vehicle[1].type = SpotAt(floors, ref).spot_type

\* C2: type safety.  park never succeeds for a vehicle whose type differs
\* from the spot's type, and in every reachable state (whichever strategy
\* placed the vehicles) the occupant of every occupied spot has the spot's
\* type.
C2_TypeSafety == ParkRefusesOtherType /\ OccupantHasSpotType

\* A vehicle parked by the lowest-floor strategy while a free spot of the
\* other type, which refuses it, comes earlier in the scan.
C2_Witness ==
    /\ strategy = LowestFloor
    /\ \E occ \in Occupied(floors), ref \in Populated(floors) :
           LET v == SpotAt(floors, occ).vehicle[1]
           IN /\ is_free(SpotAt(floors, ref))
              /\ SpotAt(floors, ref).spot_type # v.type
              /\ ref.floor = occ.floor /\ ref.r < occ.r
              /\ ~park(SpotAt(floors, ref), v).ret

\* ------------------------------------------------------------------- C3

\* Every populated spot of the type is occupied (or there is none).
Exhausted(fls, vtype) ==
    \A ref \in Populated(fls) :
        SpotAt(fls, ref).spot_type = vtype => ~is_free(SpotAt(fls, ref))

\* C3: exhaustion.  In every reachable state in which every populated spot
\* of a vehicle's type is occupied, park_vehicle of that vehicle returns
\* None and leaves every floor, spot and occupant as it was.
C3_Exhaustion ==
    \A v \in Vehicles :
        Exhausted(floors, v.type) =>
            LET res == park_vehicle(strategy, floors, v)
            IN res.ret = None /\ res.floors = floors

\* Two car spots, both occupied, a free bike spot left: a further car is
\* turned away.
C3_Witness ==
    /\ Cardinality({ref \in Occupied(floors) :
                       SpotAt(floors, ref).spot_type = CAR}) = 2
    /\ Exhausted(floors, CAR)
    /\ ~Exhausted(floors, BIKE)
    /\ park_vehicle(strategy, floors, Vehicle("KA02", CAR)).ret = None

\* ------------------------------------------------------------------- C4

\* C4: round trip.  From every reachable state, for every vehicle u, a
\* successful park_vehicle(u) followed at once by unpark_vehicle(u.number)
\* returns u, and the spot park_vehicle returned is free afterwards.
C4_RoundTrip ==
    \A u \in Vehicles :
        LET a == park_vehicle(strategy, floors, u)
        IN a.ret # None =>
               LET r == unpark_vehicle(a.floors, u.number)
               IN /\ r.ret = Some(u)
                  /\ is_free(SpotAt(r.floors, a.ret[1]))

\* ------------------------------------------------------------------- C5

\* C5 as claimed: after the round trip the floor's free count for u's type
\* is one more than it was before park_vehicle.
C5_CountUpByOne ==
    \A u \in Vehicles :
        LET a == park_vehicle(strategy, floors, u)
        IN a.ret # None =>
               LET r == unpark_vehicle(a.floors, u.number)
                   z == a.ret[1].floor
               IN get_free_spots(r.floors[z], u.type)
                      = get_free_spots(floors[z], u.type) + 1

\* C5, amended: a successful park_vehicle(u) lowers the free count of u's
\* type on the floor of the returned spot by one; after the following
\* unpark_vehicle(u.number) the count is back at its value before
\* park_vehicle (one more than between the two calls) whenever the released
\* spot is a spot of that type on that floor, as the returned spot is, and
\* stays one below otherwise.  count_free_spots for the floor's number
\* agrees whenever it reads that floor.
C5_CountRestored ==
    \A u \in Vehicles :
        LET a == park_vehicle(strategy, floors, u)
        IN a.ret # None =>
               LET r == unpark_vehicle(a.floors, u.number)
                   z == a.ret[1].floor
                   before == get_free_spots(floors[z], u.type)
                   between == get_free_spots(a.floors[z], u.type)
                   after == get_free_spots(r.floors[z], u.type)
                   freed == FirstHolding(a.floors,
                                ScanOrder(a.floors, StoredOrder(a.floors)),
                                u.number)[1]
                   sameKind == /\ freed.floor = z
                               /\ SpotAt(a.floors, freed).spot_type = u.type
               IN /\ between = before - 1
                  /\ after = IF sameKind THEN before ELSE before - 1
                  /\ freed = a.ret[1] => after = before /\ after = between + 1
                  /\ (\A j \in 1..(z - 1) :
                          floors[j].floor_num # floors[z].floor_num) =>
                         count_free_spots(r.floors, floors[z].floor_num, u.type)
                             = after

\* A state from which the round trip of a car frees the spot it was given,
\* on the second of two floors, with another car spot still free there.
C5_Witness ==
    \E u \in Vehicles :
        LET a == park_vehicle(strategy, floors, u)
        IN /\ a.ret # None
           /\ a.ret[1].floor = 2
           /\ get_free_spots(floors[2], u.type) = 2
           /\ FirstHolding(a.floors, ScanOrder(a.floors, StoredOrder(a.floors)),
                           u.number) = a.ret
           /\ get_free_spots(unpark_vehicle(a.floors, u.number).floors[2],
                             u.type) = 2

\* ------------------------------------------------------------------- C6

\* Place a comes before place b when floors are visited in the given order
\* (pos[i] is the turn of floor i) and each grid row by row.
ComesBefore(pos, a, b) ==
    \/ pos[a.floor] < pos[b.floor]
    \/ /\ a.floor = b.floor
       /\ \/ a.r < b.r
          \/ a.r = b.r /\ a.c < b.c

\* The place of S that comes before every other place of S.
Earliest(pos, S) ==
    CHOOSE a \in S : \A b \in S \ {a} : ComesBefore(pos, a, b)

\* What a placement has to return and do: None and no change when there is
\* no candidate, else the earliest candidate, which then holds the vehicle.
PlacesAtEarliest(res, pos, v) ==
    IF Candidates(floors, v) = {}
    THEN res.ret = None
    ELSE LET want == Earliest(pos, Candidates(floors, v))
         IN /\ res.ret = Some(want)
            /\ SpotAt(res.floors, want).vehicle = Some(v)

\* C6: FirstAvailable placement.  In every reachable state and for every
\* vehicle, FirstAvailableStrategy.find_spot awards the first populated,
\* free spot of the vehicle's type met when floors are visited in stored
\* (append) order and each grid row-major; empty cells, occupied spots and
\* spots of another type are skipped; it returns None only if there is no
\* such spot.
C6_FirstAvailablePlacement ==
    \A v \in Vehicles :
        PlacesAtEarliest(FirstAvailableStrategy_find_spot(floors, v),
                         [i \in 1..Len(floors) |-> i], v)

\* On one floor an occupied spot at (0,0) is skipped and candidates are left
\* at (0,1) and at (1,0); the one at (0,1) is awarded.
C6_Witness ==
    \E v \in Vehicles :
        LET here(r, c) == [floor |-> 1, r |-> r, c |-> c]
        IN /\ Len(floors) >= 1
           /\ here(1, 1) \in Occupied(floors)
           /\ here(1, 2) \in Candidates(floors, v)
           /\ here(2, 1) \in Candidates(floors, v)
           /\ FirstAvailableStrategy_find_spot(floors, v).ret = Some(here(1, 2))

\* ------------------------------------------------------------------- C7

\* The turn of each floor when floors are visited by ascending floor_num,
\* floors with the same floor_num in their insertion order.
LowestFloorTurn(fls) ==
    [i \in 1..Len(fls) |->
        Cardinality({j \in 1..Len(fls) :
            \/ fls[j].floor_num < fls[i].floor_num
            \/ fls[j].floor_num = fls[i].floor_num /\ j <= i})]

\* C7: LowestZoneFirst placement.  In every reachable state and for every
\* vehicle, LowestFloorStrategy.find_spot awards the first populated, free
\* spot of the vehicle's type met when floors are visited by ascending
\* floor_num (equal floor_num: insertion order) and each grid row-major, so
\* no candidate on a floor with a smaller floor_num is passed over.
C7_LowestFloorPlacement ==
    \A v \in Vehicles :
        LET res == LowestFloorStrategy_find_spot(floors, v)
        IN /\ PlacesAtEarliest(res, LowestFloorTurn(floors), v)
           /\ res.ret # None =>
                  \A ref \in Candidates(floors, v) :
                      floors[ref.floor].floor_num
                          >= floors[res.ret[1].floor].floor_num

\* Floor 1 was appended before floor 0, both have a candidate, and the one
\* on floor 0 (second in stored order) is awarded.
C7_Witness ==
    \E v \in Vehicles :
        /\ Len(floors) = 2
        /\ floors[1].floor_num = 1 /\ floors[2].floor_num = 0
        /\ \E a, b \in Candidates(floors, v) : a.floor = 1 /\ b.floor = 2
        /\ LowestFloorStrategy_find_spot(floors, v).ret # None
        /\ LowestFloorStrategy_find_spot(floors, v).ret[1].floor = 2

\* ------------------------------------------------------------------- C8

\* C8: policy purity.  find_spot of either strategy mutates no spot: for
\* every vehicle the floors are the same after it returns as before, whether
\* it returns a spot or None.
C8_PolicyPurity ==
    \A strat \in Strategies, v \in Vehicles :
        find_spot(strat, floors, v).floors = floors

\* ------------------------------------------------------------------- C9

\* C9: single binding.  In every reachable state each vehicle is the
\* occupant of at most one spot, also after park_vehicle was called again
\* for a vehicle that is already parked.
C9_SingleBinding ==
    \A v \in Vehicles :
        Cardinality({ref \in Occupied(floors) :
                        SpotAt(floors, ref).vehicle = Some(v)}) <= 1

\* ------------------------------------------------------------------ C10

\* C10: release of an unknown number.  unpark_vehicle(number) returns None
\* exactly when no spot's occupant has the number, and then changes nothing;
\* when a spot's occupant has the number it returns a vehicle with that
\* number, never None.
C10_UnparkUnknown ==
    \A n \in Numbers :
        LET res == unpark_vehicle(floors, n)
            held == \E ref \in Refs(floors) : Holds(floors, ref, n)
        IN /\ res.ret = None <=> ~held
           /\ res.ret = None => res.floors = floors
           /\ res.ret # None =>
                  /\ Len(res.ret) = 1
                  /\ res.ret[1] \in Vehicles
                  /\ res.ret[1].number = n

\* One number is parked and the other is not: unpark_vehicle returns the
\* vehicle for the first and None, changing nothing, for the second.
C10_Witness ==
    \E n, m \in Numbers :
        /\ \E ref \in Refs(floors) : Holds(floors, ref, n)
        /\ unpark_vehicle(floors, n).ret # None
        /\ ~\E ref \in Refs(floors) : Holds(floors, ref, m)
        /\ unpark_vehicle(floors, m).ret = None
        /\ unpark_vehicle(floors, m).floors = floors

\* ------------------------------------------------- setup with any arguments

\* The row and column arguments a caller may pass to add_spot: every index
\* of the grid, the negative indices Python accepts, and one index beyond
\* the grid on either side.
RowArgs == (-(Rows + 1))..Rows
ColArgs == (-(Cols + 1))..Cols

\* add_floor and add_spot on a lot that stays one below the setup budget;
\* add_spot with a spot the caller built with any row and col of its own.
AddFloorSetup(floor_num) ==
    /\ SetupSize(floors) < SetupBudget - 1
    /\ floors' = Append(floors, ParkingFloor(floor_num, Rows, Cols))
    /\ UNCHANGED << strategy, calls >>

AddSpotAt(i, spot, row, col) ==
    /\ floors' = [floors EXCEPT ![i] = add_spot(floors[i], spot, row, col).floor]
    /\ SetupSize(floors') < SetupBudget
    /\ UNCHANGED << strategy, calls >>

\* The lot's operations, with add_spot called with any of the arguments
\* above and a spot built either with those arguments or as
\* ParkingSpot(t, 0, 0).
NextSetup ==
    \/ \E f \in FloorNums : AddFloorSetup(f)
    \/ \E i \in 1..Len(floors), t \in VehicleType, r \in RowArgs, c \in ColArgs :
           AddSpotAt(i, ParkingSpot(t, r, c), r, c)
    \/ \E i \in 1..Len(floors), t \in VehicleType, r \in RowArgs, c \in ColArgs :
           AddSpotAt(i, ParkingSpot(t, 0, 0), r, c)
    \/ \E s \in Strategies : SetStrategy(s)
    \/ \E v \in Vehicles : ParkVehicle(v)
    \/ \E n \in Numbers : UnparkVehicle(n)
    \/ \E n \in Numbers : SearchVehicle(n)
    \/ \E f \in FloorNums \cup {2}, t \in VehicleType : CountFreeSpots(f, t)

SpecSetup == Init /\ [][NextSetup]_vars

\* ------------------------------------------------------------------ C11

\* C11: locate result.  search_vehicle(number) returns None iff no spot's
\* occupant has the number; otherwise it names the floor_num of the floor
\* and the row and column of the grid position of the first spot, in stored
\* floor order then row-major, whose occupant has the number: the spot
\* unpark_vehicle(number) would free.
C11_LocateResult ==
    \A n \in Numbers :
        LET res == search_vehicle(floors, n)
            holders == {ref \in Refs(floors) : Holds(floors, ref, n)}
        IN IF holders = {}
           THEN res = None
           ELSE LET first == Earliest([i \in 1..Len(floors) |-> i], holders)
                IN /\ res = Some([number |-> n,
                                  floor_num |-> floors[first.floor].floor_num,
                                  row |-> first.r - 1, col |-> first.c - 1])
                   /\ is_free(SpotAt(unpark_vehicle(floors, n).floors, first))

\* ------------------------------------------------------------------ C12

\* C12: zone free count.  In every reachable state, for every floor and
\* type t, get_free_spots(t) is the number of grid cells of the floor that
\* hold a spot which is free and of type t; empty cells, occupied spots and
\* spots of other types count 0.
C12_ZoneFreeCount ==
    \A i \in 1..Len(floors), t \in VehicleType :
        get_free_spots(floors[i], t)
            = Cardinality({ref \in Populated(floors) :
                              /\ ref.floor = i
                              /\ SpotAt(floors, ref).vehicle = None
                              /\ SpotAt(floors, ref).spot_type = t})

\* A floor with an empty cell, an occupied car spot, a free bike spot and a
\* free car spot: its free count for cars is 1.
C12_Witness ==
    \E a, b, c, d \in Refs(floors) :
        /\ a.floor = 1 /\ b.floor = 1 /\ c.floor = 1 /\ d.floor = 1
        /\ CellAt(floors, a) = None
        /\ b \in Occupied(floors) /\ SpotAt(floors, b).spot_type = CAR
        /\ c \in Populated(floors) \ Occupied(floors)
        /\ SpotAt(floors, c).spot_type = BIKE
        /\ d \in Populated(floors) \ Occupied(floors)
        /\ SpotAt(floors, d).spot_type = CAR
        /\ get_free_spots(floors[1], CAR) = 1

\* ------------------------------------------------------------------ C13

\* C13: allocator free count.  count_free_spots(floor_num, t) is
\* get_free_spots(t) of the floor whose floor_num is the argument (the first
\* such floor in stored order), wherever that floor stands in lot.floors,
\* and is 0 when no floor has that floor_num.
C13_LotFreeCount ==
    \A n \in FloorNums \cup {2}, t \in VehicleType :
        LET named == {i \in 1..Len(floors) : floors[i].floor_num = n}
        IN count_free_spots(floors, n, t)
               = IF named = {} THEN 0
                 ELSE get_free_spots(
                          floors[CHOOSE i \in named : \A j \in named : i <= j], t)

\* Floor 1 was appended before floor 0: the count for floor_num 0 is that of
\* the second floor of the list, not of the first; no floor has floor_num 2
\* and its count is 0 although a car spot is free.
C13_Witness ==
    /\ Len(floors) = 2
    /\ floors[1].floor_num = 1 /\ floors[2].floor_num = 0
    /\ get_free_spots(floors[1], CAR) = 0
    /\ get_free_spots(floors[2], CAR) = 1
    /\ count_free_spots(floors, 0, CAR) = 1
    /\ count_free_spots(floors, 2, CAR) = 0

\* ------------------------------------------------------------------ C15

\* The vehicles park refuses on a spot only because it is occupied, and
\* only because of their type.
RefusedAsOccupied(spot) ==
    {v \in Vehicles : ~is_free(spot) /\ v.type = spot.spot_type}

RefusedAsOtherType(spot) ==
    {v \in Vehicles : is_free(spot) /\ v.type # spot.spot_type}

C16_UnparkIdempotent ==
    \A ref \in Populated(floors) :
        LET spot == SpotAt(floors, ref)
            once == unpark(spot)
            twice == unpark(once.spot)
        IN /\ once.ret = spot.vehicle
           /\ once.spot = [spot EXCEPT !.vehicle = None]
           /\ is_free(once.spot)
           /\ twice.ret = None
           /\ twice.spot = once.spot

\* A lot with an occupied spot, whose unpark returns its vehicle, and a free
\* spot, whose unpark returns None.
C16_Witness ==
    \E a \in Occupied(floors), b \in Populated(floors) \ Occupied(floors) :
        /\ unpark(SpotAt(floors, a)).ret \in {Some(v) : v \in Vehicles}
        /\ unpark(SpotAt(floors, b)).ret = None
        /\ unpark(SpotAt(floors, b)).spot = SpotAt(floors, b)

\* ------------------------------------------------------------------ C17

\* C17: grid population.  add_spot on a grid position that already holds a
\* spot does not replace that spot, and the grid keeps its rows and columns.
C17_PopulatedOnce ==
    \A ref \in Populated(floors), t \in VehicleType :
        LET res == add_spot(floors[ref.floor],
                            ParkingSpot(t, ref.r - 1, ref.c - 1),
                            ref.r - 1, ref.c - 1)
        IN /\ res.floor.spots[ref.r][ref.c] = CellAt(floors, ref)
           /\ Len(res.floor.spots) = Len(floors[ref.floor].spots)
           /\ \A r \in 1..Len(res.floor.spots) :
                  Len(res.floor.spots[r]) = Len(floors[ref.floor].spots[r])

\* ------------------------------------------------------------------ C18

\* C18: out-of-range placement.  add_spot with row outside 0..rows-1 or col
\* outside 0..cols-1, negative values included, fails and leaves every grid
\* cell unchanged.
C18_OutOfRangeFatal ==
    \A i \in 1..Len(floors), t \in VehicleType, r \in RowArgs, c \in ColArgs :
        (r \notin 0..(Rows - 1) \/ c \notin 0..(Cols - 1)) =>
            LET res == add_spot(floors[i], ParkingSpot(t, r, c), r, c)
            IN res.raised /\ res.floor = floors[i]

\* ------------------------------------------------------------------ C14

\* The order of the floors a strategy scans in.
StrategyTurn(strat, fls) ==
    IF strat = FirstAvailable
    THEN [i \in 1..Len(fls) |-> i]
    ELSE LowestFloorTurn(fls)

\* A step that replaces the strategy leaves every floor, spot and occupant
\* as it was, and from the state it reaches park_vehicle places every
\* vehicle as the new strategy does.
StrategySwapStep ==
    strategy' # strategy =>
        /\ floors' = floors
        /\ \A v \in Vehicles :
               PlacesAtEarliest(park_vehicle(strategy', floors, v),
                                StrategyTurn(strategy', floors), v)

\* C14: policy swap.  Replacing the lot's strategy changes no spot and no
\* occupant, and the next park_vehicle is placed by the new strategy.
C14_PolicySwap == [][StrategySwapStep]_vars

\* The lot runs LowestFloor on floors stored as 1 then 0, each with a
\* candidate: park_vehicle awards the spot of floor 0, stored second, where
\* FirstAvailable would have awarded the one of floor 1.
C14_Witness ==
    \E v \in Vehicles :
        /\ strategy = LowestFloor
        /\ Len(floors) = 2
        /\ floors[1].floor_num = 1 /\ floors[2].floor_num = 0
        /\ park_vehicle(strategy, floors, v).ret # None
        /\ park_vehicle(strategy, floors, v).ret[1].floor = 2
        /\ park_vehicle(FirstAvailable, floors, v).ret # None
        /\ park_vehicle(FirstAvailable, floors, v).ret[1].floor = 1

\* ------------------------------------------- park_vehicle, thread by thread

\* The two halves of park: the test of its if, and the assignment under it.
park_test(spot, vehicle) == park(spot, vehicle).ret

\* The assignment of park left out.
park_write_nothing(spot, vehicle) == spot

park_write(spot, vehicle) == [spot EXCEPT !.vehicle = Some(vehicle)]

\* The lot of the demo: one floor with car spots at (0,0) and (1,1) and a
\* bike spot at (0,1).
DemoLot ==
    LET floor0 == ParkingFloor(0, Rows, Cols)
        floor1 == add_spot(floor0, ParkingSpot(CAR, 0, 0), 0, 0).floor
        floor2 == add_spot(floor1, ParkingSpot(BIKE, 0, 1), 0, 1).floor
        floor3 == add_spot(floor2, ParkingSpot(CAR, 1, 1), 1, 1).floor
    IN << floor3 >>

InitRace ==
    /\ floors = DemoLot
    /\ strategy \in Strategies
    /\ calls = [t \in Threads |-> Idle]

\* The cells a call of find_spot visits, in turn.
ScanCells(strat, fls) ==
    ScanOrder(fls, IF strat = FirstAvailable THEN StoredOrder(fls) ELSE sorted(fls))

\* A thread enters park_vehicle(vehicle) and find_spot starts its loops.
CallPark(t, vehicle) ==
    /\ calls[t].pc = "idle"
    /\ calls' = [calls EXCEPT ![t] =
           [pc |-> "test", vehicle |-> Some(vehicle), k |-> 1, ret |-> None]]
    /\ UNCHANGED << floors, strategy >>

\* One turn of the loop up to the test of park: past the last cell find_spot
\* returns None; an empty cell or a failed test moves to the next cell; a
\* test that passes leaves the thread before the assignment.
TestSpot(t) ==
    /\ calls[t].pc = "test"
    /\ LET cells == ScanCells(strategy, floors)
           k == calls[t].k
       IN calls' = [calls EXCEPT ![t] =
              IF k > Len(cells) THEN [@ EXCEPT !.pc = "done"]
              ELSE IF CellAt(floors, cells[k]) = None THEN [@ EXCEPT !.k = k + 1]
              ELSE IF park_test(CellAt(floors, cells[k])[1], calls[t].vehicle[1])
                   THEN [@ EXCEPT !.pc = "write"]
                   ELSE [@ EXCEPT !.k = k + 1]]
    /\ UNCHANGED << floors, strategy >>

\* The assignment of park, then the returns up to park_vehicle's caller.
WriteSpot(t) ==
    /\ calls[t].pc = "write"
    /\ LET ref == ScanCells(strategy, floors)[calls[t].k]
       IN /\ floors' = SetCell(floors, ref,
                 Some(park_write(CellAt(floors, ref)[1], calls[t].vehicle[1])))
          /\ calls' = [calls EXCEPT ![t] = [@ EXCEPT !.pc = "done", !.ret = Some(ref)]]
    /\ UNCHANGED strategy

NextRace ==
    \/ \E t \in Threads, v \in Vehicles : CallPark(t, v)
    \/ \E t \in Threads : TestSpot(t)
    \/ \E t \in Threads : WriteSpot(t)

SpecRace == InitRace /\ [][NextRace]_vars

\* ------------------------------------------------------------------ C19

\* Two calls that have both returned the same spot.
SameAward(t1, t2) ==
    /\ t1 # t2
    /\ calls[t1].pc = "done" /\ calls[t2].pc = "done"
    /\ calls[t1].ret # None /\ calls[t1].ret = calls[t2].ret

\* C19: check-then-act race.  When two concurrent calls of park_vehicle have
\* both returned the same spot, the two vehicles are of the spot's type and
\* the spot holds one of them only: the vehicle of the other call, if it is a
\* different one, is held by no spot of the lot.
C19_CheckThenActRace ==
    \A t1, t2 \in Threads :
        SameAward(t1, t2) =>
            LET spot == SpotAt(floors, calls[t1].ret[1])
                v1 == calls[t1].vehicle[1]
                v2 == calls[t2].vehicle[1]
            IN /\ v1.type = spot.spot_type /\ v2.type = spot.spot_type
               /\ spot.vehicle \in {Some(v1), Some(v2)}
               /\ \A ref \in Populated(floors) \ {calls[t1].ret[1]} :
                      SpotAt(floors, ref).vehicle \notin {Some(v1), Some(v2)}

\* Both calls, for two different cars, have returned the car spot at (0,0),
\* which holds the car of the first thread; the other car spot is free.
C19_Witness ==
    /\ SameAward(1, 2)
    /\ calls[1].vehicle # calls[2].vehicle
    /\ calls[1].ret = Some([floor |-> 1, r |-> 1, c |-> 1])
    /\ SpotAt(floors, calls[1].ret[1]).vehicle = calls[1].vehicle
    /\ is_free(SpotAt(floors, [floor |-> 1, r |-> 2, c |-> 2]))

\* ------------------------------------------------------------------ C21

\* What park_vehicle does to the lot when it succeeds: the spot it returns
\* was free and of the vehicle's type and now holds the vehicle; the lot is
\* otherwise what it was, spot for spot and floor for floor.
AllocateFrame ==
    \A v \in Vehicles :
        LET res == park_vehicle(strategy, floors, v)
        IN res.ret # None =>
               /\ res.ret[1] \in Candidates(floors, v)
               /\ SpotAt(res.floors, res.ret[1]).vehicle = Some(v)
               /\ res.floors = SetCell(floors, res.ret[1],
                      Some([SpotAt(floors, res.ret[1]) EXCEPT !.vehicle = Some(v)]))

\* C21: allocate frame.  A successful park_vehicle(v) changes the occupant
\* of exactly one spot, the one it returns, which was free and of v's type
\* before the call and holds v after it; every other spot's occupant, every
\* spot_type and the stored floors are unchanged, and a step that changes
\* the floors leaves the strategy as it was.
C21_AllocateFrame ==
    /\ []AllocateFrame
    /\ [][floors' # floors => strategy' = strategy]_vars

\* park_vehicle succeeds in a lot with an occupied spot, and with a free
\* spot besides the one it awards.
C21_Witness ==
    \E v \in Vehicles :
        LET res == park_vehicle(strategy, floors, v)
        IN /\ res.ret # None
           /\ Occupied(floors) # {}
           /\ (Populated(floors) \ Occupied(floors)) \ {res.ret[1]} # {}
           /\ Occupied(res.floors) = Occupied(floors) \cup {res.ret[1]}

\* ------------------------------------------------------------------ C22

\* C22: release frame.  When some spot holds a vehicle with the number,
\* unpark_vehicle(number) frees exactly one spot, the first holding the
\* number in stored floor order then row-major order, returns the vehicle
\* that spot held, and leaves every other spot as it was, a second spot
\* holding a vehicle of the same number included.
C22_ReleaseFrame ==
    \A n \in Numbers :
        LET holders == {ref \in Refs(floors) : Holds(floors, ref, n)}
            res == unpark_vehicle(floors, n)
        IN holders # {} =>
               LET first == Earliest([i \in 1..Len(floors) |-> i], holders)
               IN /\ res.ret = SpotAt(floors, first).vehicle
                  /\ res.floors = SetCell(floors, first,
                         Some([SpotAt(floors, first) EXCEPT !.vehicle = None]))
                  /\ Occupied(res.floors) = Occupied(floors) \ {first}

\* Two spots hold a vehicle numbered KA01; unpark_vehicle frees the first of
\* them and the second still holds its vehicle.
C22_Witness ==
    \E a, b \in Occupied(floors) :
        /\ a # b
        /\ Holds(floors, a, "KA01") /\ Holds(floors, b, "KA01")
        /\ ComesBefore([i \in 1..Len(floors) |-> i], a, b)
        /\ is_free(SpotAt(unpark_vehicle(floors, "KA01").floors, a))
        /\ Holds(unpark_vehicle(floors, "KA01").floors, b, "KA01")

\* ------------------------------------------------------------------ C24

\* The lot as set up: every floor and spot, with no vehicle in any spot.
AsSetUp(fls) ==
    [i \in 1..Len(fls) |->
        [fls[i] EXCEPT !.spots =
            [r \in 1..Len(fls[i].spots) |->
                [c \in 1..Len(fls[i].spots[r]) |->
                    IF fls[i].spots[r][c] = None THEN None
                    ELSE Some([fls[i].spots[r][c][1] EXCEPT !.vehicle = None])]]]]

\* The spots of floor i that have the type, all of them and the occupied.
SpotsOfType(fls, i, t) ==
    {ref \in Populated(fls) : ref.floor = i /\ SpotAt(fls, ref).spot_type = t}

OccupiedOfType(fls, i, t) == SpotsOfType(fls, i, t) \cap Occupied(fls)

\* C24: capacity conservation.  park_vehicle and unpark_vehicle leave the
\* lot as it was set up: the same floors, the same spots, each of the type
\* it had; and in every reachable state, for every floor and type t,
\* get_free_spots(t) plus the number of occupied spots of type t is the
\* number of spots of type t the floor was set up with.
C24_CapacityConservation ==
    /\ \A v \in Vehicles :
           AsSetUp(park_vehicle(strategy, floors, v).floors) = AsSetUp(floors)
    /\ \A n \in Numbers :
           AsSetUp(unpark_vehicle(floors, n).floors) = AsSetUp(floors)
    /\ \A i \in 1..Len(floors), t \in VehicleType :
           get_free_spots(floors[i], t)
               + Cardinality(OccupiedOfType(floors, i, t))
               = Cardinality(SpotsOfType(AsSetUp(floors), i, t))

\* A floor set up with two car spots and one bike spot, one car spot
\* occupied: one free plus one occupied makes its two car spots.
C24_Witness ==
    /\ Len(floors) = 1
    /\ Cardinality(SpotsOfType(AsSetUp(floors), 1, CAR)) = 2
    /\ Cardinality(SpotsOfType(AsSetUp(floors), 1, BIKE)) = 1
    /\ Cardinality(OccupiedOfType(floors, 1, CAR)) = 1
    /\ get_free_spots(floors[1], CAR) = 1
    /\ get_free_spots(floors[1], BIKE) = 1

\* ------------------------- the lot's operations, thread by thread, with
\* ------------------------- park and unpark of a spot as one step each

\* A thread that is in no call.  op is the operation a thread is in; vehicle,
\* number, floor_num and vtype are its arguments; k is the cell its loop is
\* at and acc the sum of get_free_spots so far; ret is what it returned;
\* live says that the spot park_vehicle returned has not been unparked since.
NoCall ==
    [pc |-> "idle", op |-> "none", vehicle |-> None, number |-> "",
     floor_num |-> -1, vtype |-> "", k |-> 0, acc |-> 0, ret |-> None,
     live |-> FALSE]

InitAtomic ==
    /\ floors = DemoLot
    /\ strategy \in Strategies
    /\ calls = [t \in Threads |-> NoCall]

Call_park_vehicle(t, vehicle) ==
    /\ calls[t].pc = "idle"
    /\ calls' = [calls EXCEPT ![t] =
           [NoCall EXCEPT !.pc = "park", !.op = "park",
                          !.vehicle = Some(vehicle), !.k = 1]]
    /\ UNCHANGED << floors, strategy >>

Call_unpark_vehicle(t, number) ==
    /\ calls[t].pc = "idle"
    /\ calls' = [calls EXCEPT ![t] =
           [NoCall EXCEPT !.pc = "look", !.op = "unpark", !.number = number, !.k = 1]]
    /\ UNCHANGED << floors, strategy >>

Call_search_vehicle(t, number) ==
    /\ calls[t].pc = "idle"
    /\ calls' = [calls EXCEPT ![t] =
           [NoCall EXCEPT !.pc = "look", !.op = "search", !.number = number, !.k = 1]]
    /\ UNCHANGED << floors, strategy >>

Call_count_free_spots(t, floor_num, vtype) ==
    /\ calls[t].pc = "idle"
    /\ calls' = [calls EXCEPT ![t] =
           [NoCall EXCEPT !.pc = "count", !.op = "count",
                          !.floor_num = floor_num, !.vtype = vtype, !.k = 1]]
    /\ UNCHANGED << floors, strategy >>

\* One turn of find_spot's loop, with spot.park(vehicle) as one step.
ParkSpot(t) ==
    /\ calls[t].pc = "park"
    /\ LET cells == ScanCells(strategy, floors)
           k == calls[t].k
       IN IF k > Len(cells)
          THEN /\ calls' = [calls EXCEPT ![t] = [@ EXCEPT !.pc = "done"]]
               /\ UNCHANGED floors
          ELSE IF CellAt(floors, cells[k]) = None
          THEN /\ calls' = [calls EXCEPT ![t] = [@ EXCEPT !.k = k + 1]]
               /\ UNCHANGED floors
          ELSE LET p == park(CellAt(floors, cells[k])[1], calls[t].vehicle[1])
               IN /\ floors' = SetCell(floors, cells[k], Some(p.spot))
                  /\ calls' = [calls EXCEPT ![t] =
                         IF p.ret
                         THEN [@ EXCEPT !.pc = "done", !.ret = Some(cells[k]),
                                        !.live = TRUE]
                         ELSE [@ EXCEPT !.k = k + 1]]
    /\ UNCHANGED strategy

\* The loops of unpark_vehicle and of search_vehicle up to "spot and
\* spot.vehicle": past the last cell they return None.
LookSpot(t) ==
    /\ calls[t].pc = "look"
    /\ LET cells == ScanOrder(floors, StoredOrder(floors))
           k == calls[t].k
       IN calls' = [calls EXCEPT ![t] =
              IF k > Len(cells) THEN [@ EXCEPT !.pc = "done"]
              ELSE IF CellAt(floors, cells[k]) = None THEN [@ EXCEPT !.k = k + 1]
              ELSE IF CellAt(floors, cells[k])[1].vehicle = None
                   THEN [@ EXCEPT !.k = k + 1]
                   ELSE [@ EXCEPT !.pc = "match"]]
    /\ UNCHANGED << floors, strategy >>

\* "spot.vehicle.number == number" reads spot.vehicle again: on a spot
\* cleared since LookSpot it raises AttributeError.
MatchSpot(t) ==
    /\ calls[t].pc = "match"
    /\ LET cells == ScanOrder(floors, StoredOrder(floors))
           held == CellAt(floors, cells[calls[t].k])[1].vehicle
       IN calls' = [calls EXCEPT ![t] =
              IF held = None THEN [@ EXCEPT !.pc = "raised"]
              ELSE IF held[1].number = calls[t].number
                   THEN [@ EXCEPT !.pc = "found"]
                   ELSE [@ EXCEPT !.pc = "look", !.k = calls[t].k + 1]]
    /\ UNCHANGED << floors, strategy >>

\* "return spot.unpark()", with unpark as one step; the calls of
\* park_vehicle that returned this spot no longer have it.
UnparkSpot(t) ==
    /\ calls[t].pc = "found" /\ calls[t].op = "unpark"
    /\ LET ref == ScanOrder(floors, StoredOrder(floors))[calls[t].k]
           u == unpark(CellAt(floors, ref)[1])
       IN /\ floors' = SetCell(floors, ref, Some(u.spot))
          /\ calls' = [o \in Threads |->
                 IF o = t THEN [calls[t] EXCEPT !.pc = "done", !.ret = u.ret]
                 ELSE IF calls[o].op = "park" /\ calls[o].ret = Some(ref)
                      THEN [calls[o] EXCEPT !.live = FALSE]
                      ELSE calls[o]]
    /\ UNCHANGED strategy

\* search_vehicle that clears the spot it found.
SearchFound_clearing(t) ==
    /\ calls[t].pc = "found" /\ calls[t].op = "search"
    /\ LET ref == ScanOrder(floors, StoredOrder(floors))[calls[t].k]
       IN /\ floors' = SetCell(floors, ref, Some(unpark(CellAt(floors, ref)[1]).spot))
          /\ calls' = [calls EXCEPT ![t] = [@ EXCEPT !.pc = "done"]]
    /\ UNCHANGED strategy

\* search_vehicle's return of the text for the spot it found.
SearchFound(t) ==
    /\ calls[t].pc = "found" /\ calls[t].op = "search"
    /\ LET ref == ScanOrder(floors, StoredOrder(floors))[calls[t].k]
           spot == CellAt(floors, ref)[1]
       IN calls' = [calls EXCEPT ![t] =
              [@ EXCEPT !.pc = "done",
                        !.ret = Some([number |-> calls[t].number,
                                      floor_num |-> floors[ref.floor].floor_num,
                                      row |-> spot.row, col |-> spot.col])]]
    /\ UNCHANGED << floors, strategy >>

\* count_free_spots: 0 when no floor has the floor_num, else one term of
\* the sum of get_free_spots over the first such floor, and the sum at the
\* end.
CountSpot(t) ==
    /\ calls[t].pc = "count"
    /\ LET named == {i \in 1..Len(floors) : floors[i].floor_num = calls[t].floor_num}
           k == calls[t].k
       IN calls' = [calls EXCEPT ![t] =
              IF named = {} THEN [@ EXCEPT !.pc = "done", !.ret = << 0 >>]
              ELSE LET i == CHOOSE i \in named : \A j \in named : i <= j
                       cells == FloorCells(i, floors[i])
                   IN IF k > Len(cells)
                      THEN [@ EXCEPT !.pc = "done", !.ret = << calls[t].acc >>]
                      ELSE LET cell == CellAt(floors, cells[k])
                           IN IF cell # None /\ is_free(cell[1])
                                 /\ cell[1].spot_type = calls[t].vtype
                              THEN [@ EXCEPT !.k = k + 1, !.acc = calls[t].acc + 1]
                              ELSE [@ EXCEPT !.k = k + 1]]
    /\ UNCHANGED << floors, strategy >>

\* The caller has its result and is free to call again.
Return(t) ==
    /\ calls[t].pc \in {"done", "raised"}
    /\ calls' = [calls EXCEPT ![t] = NoCall]
    /\ UNCHANGED << floors, strategy >>

NextAtomic ==
    \/ \E t \in Threads, v \in Vehicles : Call_park_vehicle(t, v)
    \/ \E t \in Threads, n \in Numbers : Call_unpark_vehicle(t, n)
    \/ \E t \in Threads, n \in Numbers : Call_search_vehicle(t, n)
    \/ \E t \in Threads, f \in FloorNums, ty \in VehicleType :
           Call_count_free_spots(t, f, ty)
    \/ \E t \in Threads : ParkSpot(t)
    \/ \E t \in Threads : LookSpot(t)
    \/ \E t \in Threads : MatchSpot(t)
    \/ \E t \in Threads : UnparkSpot(t)
    \/ \E t \in Threads : SearchFound(t)
    \/ \E t \in Threads : CountSpot(t)
    \/ \E t \in Threads : Return(t)

SpecAtomic == InitAtomic /\ [][NextAtomic]_vars

\* ------------------------------------------------------------------ C23

\* A step of a thread that is in search_vehicle or count_free_spots, from
\* its call to its return.
QueryStep(t) ==
    /\ calls[t].op \in {"search", "count"} \/ calls'[t].op \in {"search", "count"}
    /\ \/ calls'[t].pc # calls[t].pc
       \/ calls'[t].k # calls[t].k

\* C23: queries are read-only.  No step of search_vehicle(number) or of
\* count_free_spots(floor_num, vtype), whatever the arguments and whatever
\* the number is held or the floor exists, changes a spot's vehicle, a
\* floor's grid, the stored floors or the strategy.
C23_QueriesReadOnly ==
    [][(\E t \in Threads : QueryStep(t)) =>
           floors' = floors /\ strategy' = strategy]_vars

\* search_vehicle has returned None for a number no spot holds and
\* count_free_spots 0 for a floor_num no floor has, in a lot with a
\* vehicle parked and a free spot.
C23_Witness ==
    \E t, o \in Threads :
        /\ calls[t].pc = "done" /\ calls[t].op = "search"
        /\ calls[t].ret = None
        /\ \A ref \in Refs(floors) : ~Holds(floors, ref, calls[t].number)
        /\ calls[o].pc = "done" /\ calls[o].op = "count"
        /\ calls[o].ret = << 0 >>
        /\ \A i \in 1..Len(floors) : floors[i].floor_num # calls[o].floor_num
        /\ Occupied(floors) # {}
        /\ Populated(floors) \ Occupied(floors) # {}

\* ------------------------------------------------------------------ C25

\* The calls of park_vehicle that returned a spot not unparked since.
Awards ==
    {t \in Threads : calls[t].op = "park" /\ calls[t].pc = "done"
                        /\ calls[t].ret # None /\ calls[t].live}

\* C25: safety under atomic occupy.  With park and unpark of a spot as one
\* step each, under every interleaving of park_vehicle, unpark_vehicle,
\* search_vehicle and count_free_spots calls, no spot is returned by two
\* calls of park_vehicle without an unpark of that spot in between, and the
\* spot a call of park_vehicle returned holds that call's vehicle from the
\* step at which its park succeeded until the spot is unparked.
C25_AtomicOccupySafety ==
    /\ \A t, o \in Awards : t # o => calls[t].ret # calls[o].ret
    /\ \A t \in Awards :
           SpotAt(floors, calls[t].ret[1]).vehicle = calls[t].vehicle

\* Two calls of park_vehicle have returned the same spot: the spot was
\* unparked after the first, and holds the vehicle of the second; at the
\* same time two calls hold different spots.
C25_Witness ==
    \E t, o \in Threads :
        /\ t # o
        /\ calls[t].op = "park" /\ calls[t].pc = "done" /\ ~calls[t].live
        /\ o \in Awards
        /\ calls[t].ret = calls[o].ret
        /\ calls[t].vehicle # calls[o].vehicle
        /\ SpotAt(floors, calls[o].ret[1]).vehicle = calls[o].vehicle

====
